---- MODULE Spec2Model ----
(***************************************************************************)
(* Model of src/web_dashboard.py: the snapshot producer                    *)
(* (TradingDataSimulator with its UpstoxDataFetcher) and the snapshot      *)
(* server (DashboardHandler.do_GET).                                       *)
(*                                                                         *)
(* Money is held in paise (1/100 rupee) as integers; a Python float that   *)
(* is a quotient (pnl_pct, change_pct) is held as an exact fraction        *)
(* [num, den] and rounded only where the code calls round().  The binary   *)
(* representation error of floats is not modelled.                         *)
(***************************************************************************)
EXTENDS Integers, Sequences, FiniteSets, TLC

VARIABLES
    simulator,      \* the module-level TradingDataSimulator instance (line 307)
    now,            \* the wall clock read by datetime.now(), in seconds
    response,       \* what the last do_GET wrote to the client
    last_path,      \* the path of the last GET ("" when the last step was no GET)
    before,         \* the simulator as it was when the last GET arrived
    fetch_log,      \* the upstream requests issued by the last GET, in order
    raised,         \* TRUE when the last GET ended with an uncaught exception
    requests,       \* number of GET requests handled so far
    data_requests,  \* number of GET /api/data requests among them
    refreshes,      \* number of calls of TradingDataSimulator.update so far
    only_unavailable, \* TRUE while every upstream fetch so far reported unavailable
    handlers,       \* StepSpec: where each request handler stands in do_GET
    client,         \* the dashboard page in the browser (the client script)
    held            \* the snapshot a direct caller of get_data holds

vars == <<simulator, now, response, last_path, before, fetch_log, raised,
          requests, data_requests, refreshes, only_unavailable, handlers,
          client, held>>

(***************************************************************************)
(* Bounds of the model.                                                    *)
(***************************************************************************)
\* GET requests in one behaviour
MaxRequests == 2

\* direct calls of update in one behaviour of WalkSpec
MaxRefreshes == 215

\* calls of startAutoRefresh, stopAutoRefresh and toggleAutoRefresh made on a
\* loaded page
MaxCalls == 4

\* seconds that pass on a loaded page
MaxTicks == 2

(***************************************************************************)
(* Arithmetic helpers.                                                     *)
(***************************************************************************)
Abs(x) == IF x < 0 THEN -x ELSE x

Max(a, b) == IF a >= b THEN a ELSE b

\* num / den rounded to the nearest integer, ties to the even neighbour
\* (the rule of Python's round); den > 0.
RoundHalfEven(num, den) ==
    LET a == Abs(num)
        q == a \div den
        r == a % den
        m == IF 2 * r > den \/ (2 * r = den /\ q % 2 = 1) THEN q + 1 ELSE q
    IN  IF num < 0 THEN -m ELSE m

\* round(x, 2) for x = num / den; the result is in hundredths.
Round2(num, den) == RoundHalfEven(num * 100, den)

\* A Python float that is a quotient, kept exact.
Frac(n, d) == [num |-> n, den |-> d]

(***************************************************************************)
(* Python values that reach a truth test or float().                       *)
(***************************************************************************)
PyNone == [t |-> "none", v |-> 0]

PyNum(x) == [t |-> "num", v |-> x]

\* a non-empty string that is no number, e.g. "abc"
PyStr == [t |-> "str", v |-> 0]

\* the truth value Python gives to `if x:`
Truthy(x) ==
    CASE x.t = "none" -> FALSE
      [] x.t = "num"  -> x.v # 0
      [] x.t = "str"  -> TRUE

\* float(x): [raised, v]; float("abc") raises ValueError
Float(x) ==
    IF x.t = "num" THEN [raised |-> FALSE, v |-> x.v]
    ELSE [raised |-> TRUE, v |-> 0]

(***************************************************************************)
(* UpstoxDataFetcher.                                                      *)
(***************************************************************************)
\* lines 18-22: the requests library imported at module load
REQUESTS_AVAILABLE == TRUE

\* line 34: the token built into the source, used when neither an argument
\* nor the environment supplies one; a non-empty string
HardcodedToken == "hardcoded"

\* `if not self.access_token` / `if self.upstox.access_token`: None and ""
\* are false, every other string is true.  "" stands for both.
TokenTruthy(token) == token # ""

\* lines 39-47, the keys in the order of the dict
mcx_instruments ==
    [CRUDEOIL |-> "MCX_FO|472789", GOLD |-> "MCX_FO|472784",
     GOLDM |-> "MCX_FO|472781", SILVER |-> "MCX_FO|464150",
     SILVERM |-> "MCX_FO|451669", NATURALGAS |-> "MCX_FO|472791",
     COPPER |-> "MCX_FO|472793"]

\* lines 50-55
index_instruments ==
    [NIFTY |-> "NSE_INDEX|Nifty 50", BANKNIFTY |-> "NSE_INDEX|Nifty Bank",
     FINNIFTY |-> "NSE_INDEX|Nifty Fin Service", SENSEX |-> "BSE_INDEX|SENSEX"]

\* UpstoxDataFetcher.__init__ called without argument and without
\* UPSTOX_ACCESS_TOKEN in the environment (last_fetch_time is never read
\* and is left out)
NewFetcher == [access_token |-> HardcodedToken, is_connected |-> FALSE]

(***************************************************************************)
(* What the upstream does with one request, [kind, val]:                   *)
(*   timeout   requests.get raises requests.Timeout                        *)
(*   neterr    requests.get raises another exception                       *)
(*   nojson    status 200, the body is not JSON: response.json() raises    *)
(*   status    a status other than 200, with a JSON object as body         *)
(*   badbody   status 200, the JSON body is no object (a list)             *)
(*   empty     status 200, {"data": {}}                                    *)
(*   nolast    status 200, {"data": {key: {}}}                             *)
(*   quote     status 200, {"data": {key: {"last_price": val}}}            *)
(*   badprice  status 200, {"data": {key: {"last_price": "abc"}}}          *)
(*   baddata   status 200, {"data": [1]}                                   *)
(*   badquote  status 200, {"data": {key: "abc"}}                          *)
(***************************************************************************)
Outcome(kind, val) == [kind |-> kind, val |-> val]

RequestFailed == [success |-> FALSE, data |-> Outcome("none", 0)]

\* _make_request, lines 57-91: [result, fetcher]
make_request(fetcher, out) ==
    IF ~REQUESTS_AVAILABLE THEN [result |-> RequestFailed, fetcher |-> fetcher]
    ELSE IF ~TokenTruthy(fetcher.access_token)
    THEN [result |-> RequestFailed, fetcher |-> fetcher]
    ELSE IF out.kind \in {"timeout", "neterr", "nojson"}
    THEN \* line 75 or 79 raises; lines 88-91 catch it
         [result |-> RequestFailed, fetcher |-> fetcher]
    ELSE IF out.kind = "status"
    THEN \* line 86
         [result |-> RequestFailed, fetcher |-> fetcher]
    ELSE IF out.kind = "badbody"
    THEN \* lines 82-83 run, then result.get at line 84 raises; line 90 catches
         [result |-> RequestFailed,
          fetcher |-> [fetcher EXCEPT !.is_connected = TRUE]]
    ELSE \* lines 82-84; a body with no "data" gives {} like "empty"
         [result |-> [success |-> TRUE, data |-> out],
          fetcher |-> [fetcher EXCEPT !.is_connected = TRUE]]

\* the truth value of result.get('data')
DataTruthy(data) == data.kind \notin {"none", "empty"}

\* lines 107-110 and 119-122 on the result of the request: [raised, ltp]
LastPrice(result) ==
    IF ~(result.success /\ DataTruthy(result.data))
    THEN [raised |-> FALSE, ltp |-> PyNone]
    ELSE IF result.data.kind \in {"baddata", "badquote"}
    THEN \* a list has no .items(), a string has no .get: AttributeError
         [raised |-> TRUE, ltp |-> PyNone]
    ELSE IF result.data.kind = "quote"
    THEN [raised |-> FALSE, ltp |-> PyNum(result.data.val)]
    ELSE IF result.data.kind = "badprice"
    THEN [raised |-> FALSE, ltp |-> PyStr]
    ELSE \* nolast: quote.get('last_price') is None
         [raised |-> FALSE, ltp |-> PyNone]

\* the value or exception of get_mcx_ltp / get_index_ltp for the reply r
\* of _make_request: [raised, ltp, fetcher, asked]
LtpOf(r) ==
    [raised |-> LastPrice(r.result).raised, ltp |-> LastPrice(r.result).ltp,
     fetcher |-> r.fetcher, asked |-> TRUE]

\* get_mcx_ltp, lines 100-110: [raised, ltp, fetcher, asked]
get_mcx_ltp(fetcher, symbol, out) ==
    IF symbol \notin DOMAIN mcx_instruments
    THEN [raised |-> FALSE, ltp |-> PyNone, fetcher |-> fetcher, asked |-> FALSE]
    ELSE LtpOf(make_request(fetcher, out))

\* get_index_ltp, lines 112-122
get_index_ltp(fetcher, symbol, out) ==
    IF symbol \notin DOMAIN index_instruments
    THEN [raised |-> FALSE, ltp |-> PyNone, fetcher |-> fetcher, asked |-> FALSE]
    ELSE LtpOf(make_request(fetcher, out))

(***************************************************************************)
(* TradingDataSimulator: construction.                                     *)
(***************************************************************************)
\* lines 135-136, in paise
nifty_base == 2520050

banknifty_base == 5280075

\* lines 158-159
trades_today == 5

InitialRealizedPnl == 250000

\* the keys of mcx_prices in the order of the dict, lines 141-149
McxOrder ==
    <<"CRUDEOIL", "GOLD", "GOLDM", "SILVER", "SILVERM", "NATURALGAS", "COPPER">>

\* lines 141-149, prices in paise
InitialMcxPrices ==
    [CRUDEOIL   |-> [price |-> 575500, base |-> 575500, lot_size |-> 100, unit |-> "BBL"],
     GOLD       |-> [price |-> 8500000, base |-> 8500000, lot_size |-> 100, unit |-> "10GM"],
     GOLDM      |-> [price |-> 8520000, base |-> 8520000, lot_size |-> 10, unit |-> "1GM"],
     SILVER     |-> [price |-> 9500000, base |-> 9500000, lot_size |-> 30, unit |-> "KG"],
     SILVERM    |-> [price |-> 9500000, base |-> 9500000, lot_size |-> 5, unit |-> "KG"],
     NATURALGAS |-> [price |-> 28000, base |-> 28000, lot_size |-> 1250, unit |-> "MMBTU"],
     COPPER     |-> [price |-> 85000, base |-> 85000, lot_size |-> 2500, unit |-> "KG"]]

\* lines 152-156
SamplePositions ==
    << [symbol |-> "CRUDEOIL25FEBFUT", type |-> "LONG", qty |-> 100,
        avg_price |-> 640000, source |-> "PAPER", exchange |-> "MCX"],
       [symbol |-> "GOLD25FEBFUT", type |-> "LONG", qty |-> 100,
        avg_price |-> 7800000, source |-> "PAPER", exchange |-> "MCX"],
       [symbol |-> "SILVER25MARFUT", type |-> "SHORT", qty |-> 30,
        avg_price |-> 9300000, source |-> "PAPER", exchange |-> "MCX"] >>

\* __init__, lines 130-161, with the list of positions as a parameter
NewSimulator(book, t) ==
    [upstox |-> NewFetcher,
     nifty_base |-> nifty_base,
     banknifty_base |-> banknifty_base,
     nifty_price |-> nifty_base,
     banknifty_price |-> banknifty_base,
     mcx_prices |-> InitialMcxPrices,
     positions |-> book,
     trades_today |-> trades_today,
     realized_pnl |-> InitialRealizedPnl,
     last_update |-> t,
     use_real_data |-> FALSE]

(***************************************************************************)
(* _fetch_real_data, lines 175-191.  outs gives, for every instrument, what *)
(* the upstream does with the request for it.  The state threaded through   *)
(* the statements is [sim, raised, log]; once raised, nothing more runs.    *)
(***************************************************************************)
\* StorePrice with the price marked down by 1.00 when nothing was obtained,
\* as `price = float(ltp or price - 1)` would do
StorePriceOrMarkDown(old, ltp) ==
    IF ~Truthy(ltp) THEN [raised |-> FALSE, price |-> old - 100, stored |-> FALSE]
    ELSE IF Float(ltp).raised THEN [raised |-> TRUE, price |-> old, stored |-> FALSE]
    ELSE [raised |-> FALSE, price |-> Float(ltp).v, stored |-> TRUE]

\* `if ltp: price = float(ltp)`: [raised, price, stored]
StorePrice(old, ltp) ==
    IF ~Truthy(ltp) THEN [raised |-> FALSE, price |-> old, stored |-> FALSE]
    ELSE LET f == Float(ltp)
         IN  IF f.raised THEN [raised |-> TRUE, price |-> old, stored |-> FALSE]
             ELSE [raised |-> FALSE, price |-> f.v, stored |-> TRUE]

\* NiftyFlag with line 181 moved out of the `if nifty_ltp:` block
NiftyFlagUnconditional(use_real_data, stored) == TRUE

\* line 181 runs exactly when line 180 has run
NiftyFlag(use_real_data, stored) == IF stored THEN TRUE ELSE use_real_data

LogEntry(inst, out, r, stored) ==
    IF r.asked THEN << [inst |-> inst, out |-> out, ltp |-> r.ltp,
                        threw |-> r.raised, stored |-> stored] >>
    ELSE << >>

\* the statements after a get_..._ltp call that returned or raised r, for
\* the instrument inst whose tracked price is old: st with the price taken
\* over (sp is StorePrice(old, r.ltp)), the flag of line 181 and the log
Stored(st, inst, out, r, sp) ==
    IF r.raised
    THEN [sim |-> [st.sim EXCEPT !.upstox = r.fetcher], raised |-> TRUE,
          log |-> st.log \o LogEntry(inst, out, r, FALSE)]
    ELSE [sim |-> IF inst = "NIFTY"
                  THEN [st.sim EXCEPT !.upstox = r.fetcher,
                                      !.nifty_price = sp.price,
                                      !.use_real_data = NiftyFlag(@, sp.stored)]
                  ELSE IF inst = "BANKNIFTY"
                  THEN [st.sim EXCEPT !.upstox = r.fetcher,
                                      !.banknifty_price = sp.price]
                  ELSE [st.sim EXCEPT !.upstox = r.fetcher,
                                      !.mcx_prices[inst].price = sp.price],
          raised |-> sp.raised,
          log |-> st.log \o LogEntry(inst, out, r, sp.stored)]

AfterLtp(st, inst, out, old, r) ==
    Stored(st, inst, out, r, StorePrice(old, r.ltp))

\* lines 178-181
FetchNifty(st, outs) ==
    IF st.raised THEN st
    ELSE AfterLtp(st, "NIFTY", outs["NIFTY"], st.sim.nifty_price,
                  get_index_ltp(st.sim.upstox, "NIFTY", outs["NIFTY"]))

\* lines 183-185
FetchBankNifty(st, outs) ==
    IF st.raised THEN st
    ELSE AfterLtp(st, "BANKNIFTY", outs["BANKNIFTY"], st.sim.banknifty_price,
                  get_index_ltp(st.sim.upstox, "BANKNIFTY", outs["BANKNIFTY"]))

\* FetchMcx asking a second time when the first request brought no price
FetchMcxRetrying(st, symbol, outs) ==
    IF st.raised THEN st
    ELSE IF Truthy(get_mcx_ltp(st.sim.upstox, symbol, outs[symbol]).ltp)
    THEN AfterLtp(st, symbol, outs[symbol], st.sim.mcx_prices[symbol].price,
                  get_mcx_ltp(st.sim.upstox, symbol, outs[symbol]))
    ELSE AfterLtp(AfterLtp(st, symbol, outs[symbol],
                           st.sim.mcx_prices[symbol].price,
                           get_mcx_ltp(st.sim.upstox, symbol, outs[symbol])),
                  symbol, outs[symbol], st.sim.mcx_prices[symbol].price,
                  get_mcx_ltp(st.sim.upstox, symbol, outs[symbol]))

\* lines 189-191, one pass of the loop body
FetchMcx(st, symbol, outs) ==
    IF st.raised THEN st
    ELSE AfterLtp(st, symbol, outs[symbol], st.sim.mcx_prices[symbol].price,
                  get_mcx_ltp(st.sim.upstox, symbol, outs[symbol]))

\* line 188: the loop over the keys of mcx_prices, from the i-th on
RECURSIVE FetchMcxFrom(_, _, _)
FetchMcxFrom(st, i, outs) ==
    IF i > Len(McxOrder) THEN st
    ELSE FetchMcxFrom(FetchMcx(st, McxOrder[i], outs), i + 1, outs)

fetch_real_data(sim, outs) ==
    LET st0 == [sim |-> sim, raised |-> FALSE, log |-> << >>]
    IN  FetchMcxFrom(FetchBankNifty(FetchNifty(st0, outs), outs), 1, outs)

(***************************************************************************)
(* _simulate_data, lines 193-205.  rnd gives every random.uniform(-a, a)    *)
(* as a share of a in thousandths, between -1000 and 1000.                  *)
(***************************************************************************)
\* random.uniform(-a, a) for the draw u, to the paisa
Uniform(a, u) == RoundHalfEven(a * u, 1000)

\* lines 203-205 for one commodity
SimulateMcx(data, u) ==
    LET volatility == (data.base * 2) \div 1000
        moved      == data.price + Uniform(volatility, u)
    IN  [data EXCEPT !.price = Max((data.base * 8) \div 10, moved)]

simulate_data(sim, rnd) ==
    [sim EXCEPT
       !.use_real_data = FALSE,
       !.nifty_price = @ + Uniform(2000, rnd["NIFTY"]),
       !.banknifty_price = @ + Uniform(5000, rnd["BANKNIFTY"]),
       !.mcx_prices = [s \in DOMAIN @ |-> SimulateMcx(@[s], rnd[s])]]

(***************************************************************************)
(* _update_positions, lines 207-238.                                       *)
(***************************************************************************)
\* the characters of the strings the model uses as symbols
Chars(s) ==
    CASE
         s = "CRUDEOIL25FEBFUT" -> <<"C", "R", "U", "D", "E", "O", "I", "L", "2", "5", "F", "E", "B", "F", "U", "T">>
      [] s = "GOLD25FEBFUT" -> <<"G", "O", "L", "D", "2", "5", "F", "E", "B", "F", "U", "T">>
      [] s = "SILVER25MARFUT" -> <<"S", "I", "L", "V", "E", "R", "2", "5", "M", "A", "R", "F", "U", "T">>
      [] s = "COPPER25FUT" -> <<"C", "O", "P", "P", "E", "R", "2", "5", "F", "U", "T">>
      [] s = "NATURALGAS26FUT" -> <<"N", "A", "T", "U", "R", "A", "L", "G", "A", "S", "2", "6", "F", "U", "T">>
      [] s = "NIFTY25JANFUT" -> <<"N", "I", "F", "T", "Y", "2", "5", "J", "A", "N", "F", "U", "T">>
      [] s = "RELIANCE" -> <<"R", "E", "L", "I", "A", "N", "C", "E">>
      [] s = "CRUDEOIL" -> <<"C", "R", "U", "D", "E", "O", "I", "L">>
      [] s = "GOLD" -> <<"G", "O", "L", "D">>
      [] s = "GOLDM" -> <<"G", "O", "L", "D", "M">>
      [] s = "SILVER" -> <<"S", "I", "L", "V", "E", "R">>
      [] s = "SILVERM" -> <<"S", "I", "L", "V", "E", "R", "M">>
      [] s = "NATURALGAS" -> <<"N", "A", "T", "U", "R", "A", "L", "G", "A", "S">>
      [] s = "COPPER" -> <<"C", "O", "P", "P", "E", "R">>

\* str.isalpha() of one character
IsAlpha(c) ==
    c \in {"A", "B", "C", "D", "E", "F", "G", "H", "I", "J", "K", "L", "M",
           "N", "O", "P", "Q", "R", "S", "T", "U", "V", "W", "X", "Y", "Z"}

\* str.replace(pat, ''): every occurrence of pat, left to right, is removed
RECURSIVE RemoveAll(_, _)
RemoveAll(cs, pat) ==
    IF Len(cs) < Len(pat) THEN cs
    ELSE IF SubSeq(cs, 1, Len(pat)) = pat
    THEN RemoveAll(SubSeq(cs, Len(pat) + 1, Len(cs)), pat)
    ELSE <<Head(cs)>> \o RemoveAll(Tail(cs), pat)

\* line 216
Underlying(symbol) ==
    RemoveAll(SelectSeq(Chars(symbol), IsAlpha), <<"F", "U", "T">>)

\* the keys of mcx_prices that spell cs (none or one)
McxKeys(mcx_prices, cs) == {k \in DOMAIN mcx_prices : Chars(k) = cs}

\* dict.get(key, default) and dict[key] = value on a position
Get(d, key, default) == IF key \in DOMAIN d THEN d[key] ELSE default

Put(d, key, value) == (key :> value) @@ d

\* PositionLtp with random.uniform(-0.05, 0.05) at line 224
PositionLtpFivePercent(pos, mcx_prices, u) ==
    LET exchange == Get(pos, "exchange", "NSE")
    IN  IF exchange = "MCX"
        THEN LET keys == McxKeys(mcx_prices, Underlying(pos.symbol))
             IN  IF keys # {}
                 THEN Put(pos, "ltp", mcx_prices[CHOOSE k \in keys : TRUE].price)
                 ELSE IF "ltp" \notin DOMAIN pos
                 THEN Put(pos, "ltp", pos.avg_price)
                 ELSE pos
        ELSE LET p0 == IF "ltp" \notin DOMAIN pos
                       THEN Put(pos, "ltp", pos.avg_price) ELSE pos
                 moved == p0.ltp + RoundHalfEven(p0.ltp * 5 * u, 100000)
             IN  Put(p0, "ltp", Max(5, moved))

\* lines 210-224: the position with its new ltp; u is the draw of line 224
PositionLtp(pos, mcx_prices, u) ==
    LET exchange == Get(pos, "exchange", "NSE")
    IN  IF exchange = "MCX"
        THEN LET keys == McxKeys(mcx_prices, Underlying(pos.symbol))
             IN  IF keys # {}
                 THEN Put(pos, "ltp", mcx_prices[CHOOSE k \in keys : TRUE].price)
                 ELSE IF "ltp" \notin DOMAIN pos
                 THEN Put(pos, "ltp", pos.avg_price)
                 ELSE pos
        ELSE LET p0 == IF "ltp" \notin DOMAIN pos
                       THEN Put(pos, "ltp", pos.avg_price) ELSE pos
                 \* ltp * (1 + random.uniform(-0.02, 0.02)), to the paisa
                 moved == p0.ltp + RoundHalfEven(p0.ltp * 2 * u, 100000)
             IN  Put(p0, "ltp", Max(5, moved))

\* PositionPnl with the SHORT branch computed like the LONG one
PositionPnlLongOnly(type, ltp, avg_price, qty) == (ltp - avg_price) * qty

\* lines 227-230
PositionPnl(type, ltp, avg_price, qty) ==
    IF type = "LONG" THEN (ltp - avg_price) * qty
    ELSE (avg_price - ltp) * qty

\* lines 232-235
PositionPnlPct(pnl, avg_price, qty) ==
    IF avg_price > 0 THEN Frac(pnl * 100, avg_price * qty)
    ELSE Frac(0, 1)

\* lines 226-238 for a position whose ltp is set
PositionDerived(pos) ==
    LET pnl    == PositionPnl(pos.type, pos.ltp, pos.avg_price, pos.qty)
        change == pos.ltp - pos.avg_price
    IN  Put(Put(Put(Put(pos,
            "pnl", pnl),
            "pnl_pct", PositionPnlPct(pnl, pos.avg_price, pos.qty)),
            "change", change),
            "change_pct", IF pos.avg_price > 0
                          THEN Frac(change * 100, pos.avg_price)
                          ELSE Frac(0, 1))

\* rpos[i] is the draw for the i-th position, in thousandths of 0.02
update_positions(sim, rpos) ==
    [sim EXCEPT !.positions =
        [i \in DOMAIN @ |->
            PositionDerived(PositionLtp(@[i], sim.mcx_prices, rpos[i]))]]

(***************************************************************************)
(* update, lines 163-173: [sim, raised, log].  env holds what the call      *)
(* reads from outside: the upstream outcomes, the random draws, the clock.  *)
(***************************************************************************)
\* lines 171-173, reached unless line 167 raised
UpdateTail(fetched, env) ==
    IF fetched.raised THEN fetched
    ELSE [sim |-> [update_positions(fetched.sim, env.rpos)
                      EXCEPT !.last_update = env.now],
          raised |-> FALSE,
          log |-> fetched.log]

\* lines 166-169
UpdateHead(sim, env) ==
    IF TokenTruthy(sim.upstox.access_token)
    THEN fetch_real_data(sim, env.outs)
    ELSE [sim |-> simulate_data(sim, env.rnd), raised |-> FALSE, log |-> << >>]

update(sim, env) == UpdateTail(UpdateHead(sim, env), env)

\* set_access_token, lines 301-304
set_access_token(sim, token) ==
    [sim EXCEPT !.upstox.access_token = token, !.use_real_data = TRUE]

(***************************************************************************)
(* get_data, lines 240-299.  Amounts of the snapshot are in hundredths.     *)
(***************************************************************************)
\* str.lower() of the keys of mcx_prices
Lower(s) ==
    CASE s = "CRUDEOIL" -> "crudeoil"
      [] s = "GOLD" -> "gold"
      [] s = "GOLDM" -> "goldm"
      [] s = "SILVER" -> "silver"
      [] s = "SILVERM" -> "silverm"
      [] s = "NATURALGAS" -> "naturalgas"
      [] s = "COPPER" -> "copper"

\* strftime("%H:%M:%S") of a time in seconds
Strftime(t) == <<(t \div 3600) % 24, (t \div 60) % 60, t % 60>>

\* round(x, 2) of an amount held in paise
RoundMoney(x) == Round2(x, 100)

\* round(x, 2) of a quotient
RoundFrac(f) == Round2(f.num, f.den)

\* SumPnl that stops after the first position
SumPnlFirstOnly(positions) ==
    IF positions = << >> THEN 0 ELSE Get(Head(positions), "pnl", 0)

\* sum(p.get('pnl', 0) for p in positions), line 242
RECURSIVE SumPnl(_)
SumPnl(positions) ==
    IF positions = << >> THEN 0
    ELSE Get(Head(positions), "pnl", 0) + SumPnl(Tail(positions))

\* lines 247-256 for one commodity
McxEntry(data) ==
    LET change == data.price - data.base
    IN  [price |-> RoundMoney(data.price),
         change |-> RoundMoney(change),
         change_pct |-> IF data.base > 0 THEN Round2(change * 100, data.base) ELSE 0,
         lot_size |-> data.lot_size,
         unit |-> data.unit]

\* IndexEntry with the change taken as base - price
IndexEntryChangeFlipped(price, base) ==
    [price |-> RoundMoney(price),
     change |-> RoundMoney(base - price),
     change_pct |-> Round2((base - price) * 100, base)]

\* lines 262-271 for one index
IndexEntry(price, base) ==
    [price |-> RoundMoney(price),
     change |-> RoundMoney(price - base),
     change_pct |-> Round2((price - base) * 100, base)]

\* PositionEntry with p.get('ltp', 0) at line 289
PositionEntryLtpDefaultZero(p) ==
    [symbol |-> p.symbol,
     type |-> p.type,
     qty |-> p.qty,
     avg_price |-> RoundMoney(p.avg_price),
     ltp |-> RoundMoney(Get(p, "ltp", 0)),
     change |-> RoundMoney(Get(p, "change", 0)),
     change_pct |-> RoundFrac(Get(p, "change_pct", Frac(0, 1))),
     pnl |-> RoundMoney(Get(p, "pnl", 0)),
     pnl_pct |-> RoundFrac(Get(p, "pnl_pct", Frac(0, 1))),
     source |-> p.source,
     exchange |-> Get(p, "exchange", "NSE")]

\* lines 284-296
PositionEntry(p) ==
    [symbol |-> p.symbol,
     type |-> p.type,
     qty |-> p.qty,
     avg_price |-> RoundMoney(p.avg_price),
     ltp |-> RoundMoney(Get(p, "ltp", p.avg_price)),
     change |-> RoundMoney(Get(p, "change", 0)),
     change_pct |-> RoundFrac(Get(p, "change_pct", Frac(0, 1))),
     pnl |-> RoundMoney(Get(p, "pnl", 0)),
     pnl_pct |-> RoundFrac(Get(p, "pnl_pct", Frac(0, 1))),
     source |-> p.source,
     exchange |-> Get(p, "exchange", "NSE")]

\* line 260
DataSource(use_real_data) == IF use_real_data THEN "LIVE" ELSE "SIMULATED"

get_data(sim) ==
    LET total_unrealized == SumPnl(sim.positions)
        total_pnl == sim.realized_pnl + total_unrealized
    IN  [timestamp |-> Strftime(sim.last_update),
         data_source |-> DataSource(sim.use_real_data),
         broker_connected |-> sim.upstox.is_connected,
         nifty |-> IndexEntry(sim.nifty_price, sim.nifty_base),
         banknifty |-> IndexEntry(sim.banknifty_price, sim.banknifty_base),
         mcx |-> [k \in {Lower(s) : s \in DOMAIN sim.mcx_prices} |->
                    McxEntry(sim.mcx_prices[
                        CHOOSE s \in DOMAIN sim.mcx_prices : Lower(s) = k])],
         pnl |-> [realized |-> RoundMoney(sim.realized_pnl),
                  unrealized |-> RoundMoney(total_unrealized),
                  total |-> RoundMoney(total_pnl)],
         stats |-> [trades_today |-> sim.trades_today,
                    win_rate |-> 6000,
                    open_positions |-> Len(sim.positions)],
         positions |-> [i \in DOMAIN sim.positions |->
                          PositionEntry(sim.positions[i])]]

\* SnapshotRefs of a get_data that returns the dicts of self.positions
\* themselves (`"positions": self.positions`)
SnapshotRefsSharingPositions(sim) ==
    [mcx |-> [k \in {Lower(c) : c \in DOMAIN sim.mcx_prices} |-> "fresh"],
     positions |-> [i \in DOMAIN sim.positions |-> "shared"]]

\* the storage of the nested objects of the snapshot: every entry of mcx is
\* built by the dict display of lines 250-256 and every position by the one
\* of lines 284-296, from numbers and strings, so none is an object of the
\* producer; nifty, banknifty, pnl and stats are displays of lines 262-282
SnapshotRefs(sim) ==
    [mcx |-> [k \in {Lower(c) : c \in DOMAIN sim.mcx_prices} |-> "fresh"],
     positions |-> [i \in DOMAIN sim.positions |-> "fresh"]]

\* the producer after get_data: lines 240-299 assign no attribute of self
\* and no key of a position or of an entry of mcx_prices
SelfAfterGetData(sim) == sim

(***************************************************************************)
(* DashboardHandler.do_GET, lines 916-932.                                 *)
(***************************************************************************)
\* nothing reached the client: the handler ended with an exception and the
\* server closed the connection
NoResponse == [status |-> 0, headers |-> {}, body |-> [kind |-> "none"]]

\* Route with the query string cut off before the comparison
RouteIgnoringQuery(path) ==
    IF path \in {"/", "/?x=1"} THEN "page"
    ELSE IF path \in {"/api/data", "/api/data?x=1"} THEN "data"
    ELSE "notfound"

\* the branch the if / elif / else of lines 918-932 takes
Route(path) ==
    IF path = "/" THEN "page"
    ELSE IF path = "/api/data" THEN "data"
    ELSE "notfound"

\* lines 925-929 after the call of update returned or raised u
SendSnapshot(u) ==
    IF u.raised
    THEN [sim |-> u.sim, response |-> NoResponse, raised |-> TRUE,
          log |-> u.log, updates |-> 1]
    ELSE [sim |-> u.sim,
          response |-> [status |-> 200,
                        headers |-> {<<"Content-type", "application/json">>,
                                     <<"Access-Control-Allow-Origin", "*">>},
                        body |-> [kind |-> "json", json |-> get_data(u.sim)]],
          raised |-> FALSE, log |-> u.log, updates |-> 1]

\* do_GET with line 924 missing: the snapshot is served without a refresh
do_GET_NoRefresh(path, sim, env) ==
    IF path = "/"
    THEN [sim |-> sim,
          response |-> [status |-> 200,
                        headers |-> {<<"Content-type", "text/html">>},
                        body |-> [kind |-> "html"]],
          raised |-> FALSE, log |-> << >>, updates |-> 0]
    ELSE IF path = "/api/data"
    THEN [sim |-> sim,
          response |-> [status |-> 200,
                        headers |-> {<<"Content-type", "application/json">>,
                                     <<"Access-Control-Allow-Origin", "*">>},
                        body |-> [kind |-> "json", json |-> get_data(sim)]],
          raised |-> FALSE, log |-> << >>, updates |-> 0]
    ELSE [sim |-> sim,
          response |-> [status |-> 404, headers |-> {}, body |-> [kind |-> "empty"]],
          raised |-> FALSE, log |-> << >>, updates |-> 0]

\* do_GET with the refresh of line 924 made before the routing, for every path
do_GET_RefreshingFirst(path, sim, env) ==
    IF Route(path) = "page"
    THEN [sim |-> update(sim, env).sim,
          response |-> [status |-> 200,
                        headers |-> {<<"Content-type", "text/html">>},
                        body |-> [kind |-> "html"]],
          raised |-> FALSE, log |-> << >>, updates |-> 1]
    ELSE IF Route(path) = "data"
    THEN SendSnapshot(update(sim, env))
    ELSE [sim |-> update(sim, env).sim,
          response |-> [status |-> 404, headers |-> {}, body |-> [kind |-> "empty"]],
          raised |-> FALSE, log |-> << >>, updates |-> 1]

\* [sim, response, raised, log, updates]; updates counts the calls of update
do_GET(path, sim, env) ==
    IF Route(path) = "page"
    THEN [sim |-> sim,
          response |-> [status |-> 200,
                        headers |-> {<<"Content-type", "text/html">>},
                        body |-> [kind |-> "html"]],
          raised |-> FALSE, log |-> << >>, updates |-> 0]
    ELSE IF Route(path) = "data"
    THEN SendSnapshot(update(sim, env))
    ELSE [sim |-> sim,
          response |-> [status |-> 404, headers |-> {}, body |-> [kind |-> "empty"]],
          raised |-> FALSE, log |-> << >>, updates |-> 0]

(***************************************************************************)
(* The inputs the model draws.                                             *)
(***************************************************************************)
\* the request paths tried
Paths ==
    {"/", "/api/data", "/unknown", "/api/data/", "/api/data?x=1", "/?x=1"}

\* the tokens set_access_token is called with ("" is None or "")
Tokens == {"", HardcodedToken}

\* every instrument _fetch_real_data asks for, in the order of the requests
Instruments == <<"NIFTY", "BANKNIFTY">> \o McxOrder

InstrumentSet == {Instruments[i] : i \in DOMAIN Instruments}

BasePrice(inst) ==
    IF inst = "NIFTY" THEN nifty_base
    ELSE IF inst = "BANKNIFTY" THEN banknifty_base
    ELSE InitialMcxPrices[inst].base

\* the two prices the upstream may quote for an instrument, in paise:
\* 110.00 and 90.00 for NATURALGAS, base + 100.00 and base - 100.00 otherwise
QuoteValue(inst, j) ==
    IF inst = "NATURALGAS" THEN (IF j = 1 THEN 11000 ELSE 9000)
    ELSE BasePrice(inst) + (IF j = 1 THEN 10000 ELSE -10000)

Slot(kind, j) == [kind |-> kind, j |-> j]

\* what the upstream may do with one request
Slots ==
    {Slot(k, 0) : k \in {"timeout", "neterr", "nojson", "status", "badbody", "empty",
                         "nolast", "baddata", "badquote", "badprice"}}
    \cup {Slot("quote", 1), Slot("quote", 2)}

SlotOutcome(inst, slot) ==
    Outcome(slot.kind, IF slot.kind = "quote" THEN QuoteValue(inst, slot.j) ELSE 0)

\* the instruments that may be treated differently from the others within
\* one refresh: both indices, the first and the last commodity of the loop
\* and the commodity of the test positions
DeviatingInstruments == {"NIFTY", "BANKNIFTY", "CRUDEOIL", "NATURALGAS", "COPPER"}

\* <<what most requests of a refresh meet, what the deviating one meets>>
Deviations ==
    {<<Slot("timeout", 0), Slot("quote", 1)>>,
     <<Slot("quote", 1), Slot("empty", 0)>>,
     <<Slot("quote", 1), Slot("baddata", 0)>>,
     <<Slot("quote", 1), Slot("badprice", 0)>>}

\* the upstream outcomes of one refresh: the same for every instrument, or
\* the same for all but one
OutcomeChoices ==
    {[i \in InstrumentSet |-> SlotOutcome(i, c)] : c \in Slots}
    \cup
    {[i \in InstrumentSet |-> SlotOutcome(i, IF i = x THEN d[2] ELSE d[1])] :
        d \in Deviations, x \in DeviatingInstruments}

\* the draws of random.uniform, in thousandths of the amplitude
RandomDraws == {-1000, 333, 1000}

\* the draws of one _simulate_data: the same for every price, or all down
\* but one
RandomChoices ==
    {[i \in InstrumentSet |-> c] : c \in RandomDraws}
    \cup
    {[i \in InstrumentSet |-> IF i = x THEN 1000 ELSE -1000] :
        x \in DeviatingInstruments}

\* line 224 draws only for a position that is not on MCX
PositionDraws(positions) ==
    {rp \in [DOMAIN positions -> RandomDraws \cup {0}] :
        \A i \in DOMAIN positions :
            rp[i] = 0 <=> Get(positions[i], "exchange", "NSE") = "MCX"}

NoOutcomes == [i \in InstrumentSet |-> Outcome("timeout", 0)]

NoDraws == [i \in InstrumentSet |-> 0]

\* positions other than the sample ones, to exercise _update_positions:
\* two MCX positions on NATURALGAS, a position with no exchange key, and an
\* MCX position with avg_price 0
TestPositions ==
    << [symbol |-> "NATURALGAS26FUT", type |-> "LONG", qty |-> 10,
        avg_price |-> 10000, source |-> "PAPER", exchange |-> "MCX"],
       [symbol |-> "NATURALGAS26FUT", type |-> "SHORT", qty |-> 10,
        avg_price |-> 10000, source |-> "PAPER", exchange |-> "MCX"],
       [symbol |-> "RELIANCE", type |-> "LONG", qty |-> 3,
        avg_price |-> 300, source |-> "LIVE"],
       [symbol |-> "COPPER25FUT", type |-> "SHORT", qty |-> 2,
        avg_price |-> 0, source |-> "PAPER", exchange |-> "MCX"] >>

Books == {SamplePositions, TestPositions}

\* positions that are not on MCX: one with no exchange key, one on NSE
\* and one whose avg_price 0.04 is below the floor of line 224
EquityPositions ==
    << [symbol |-> "RELIANCE", type |-> "LONG", qty |-> 3,
        avg_price |-> 300, source |-> "LIVE"],
       [symbol |-> "INFY", type |-> "LONG", qty |-> 10,
        avg_price |-> 50000, source |-> "PAPER", exchange |-> "NSE"],
       [symbol |-> "SUZLON", type |-> "SHORT", qty |-> 100,
        avg_price |-> 4, source |-> "PAPER", exchange |-> "NSE"] >>

(***************************************************************************)
(* The specifications.                                                     *)
(***************************************************************************)
\* the page in a browser before its script has run: the globals of lines
\* 719-721 (autoRefreshInterval null, written 0), the Auto checkbox of line
\* 713 checked, no alert open, no interval timer set.  timers is the set of
\* the handles of the active interval timers whose callback is fetchData;
\* last_call, calls, ticks and polls record the history the properties read
NewPage ==
    [alert |-> "", loaded |-> FALSE, autoRefreshInterval |-> 0,
     timers |-> {}, next_id |-> 1, checked |-> TRUE, last_call |-> "none",
     calls |-> 0, ticks |-> 0, polls |-> 0]

\* clearInterval(id)
clearInterval(c, id) == [c EXCEPT !.timers = @ \ {id}]

\* autoRefreshInterval = setInterval(fetchData, 1000), line 895: the handle
\* is a fresh positive integer
setIntervalFetchData(c) ==
    [c EXCEPT !.timers = @ \cup {c.next_id},
              !.autoRefreshInterval = c.next_id,
              !.next_id = @ + 1]

\* startAutoRefresh without the clearInterval of line 894
startAutoRefreshNoClear(c) == setIntervalFetchData(c)

\* startAutoRefresh(), lines 893-896
startAutoRefresh(c) ==
    setIntervalFetchData(IF c.autoRefreshInterval # 0
                         THEN clearInterval(c, c.autoRefreshInterval)
                         ELSE c)

\* stopAutoRefresh(), lines 898-903
stopAutoRefresh(c) ==
    IF c.autoRefreshInterval # 0
    THEN [clearInterval(c, c.autoRefreshInterval)
            EXCEPT !.autoRefreshInterval = 0]
    ELSE c

\* toggleAutoRefresh(), lines 876-891 (the indicator it repaints is not
\* modelled)
toggleAutoRefresh(c) ==
    IF c.checked THEN startAutoRefresh(c) ELSE stopAutoRefresh(c)

\* no snapshot is held
NotHeld == [kind |-> "none"]

\* the request handlers that can exist at a time; the second one can only
\* start if the server accepts a request while another is being handled
Workers == {1, 2}

\* a handler that is not handling a request
Idle == [pc |-> "idle", path |-> "", log |-> << >>]

InitWith(book) ==
    /\ simulator = NewSimulator(book, 0)
    /\ now = 0
    /\ response = NoResponse
    /\ last_path = ""
    /\ before = NewSimulator(book, 0)
    /\ fetch_log = << >>
    /\ raised = FALSE
    /\ requests = 0
    /\ data_requests = 0
    /\ refreshes = 0
    /\ only_unavailable = TRUE
    /\ handlers = [w \in Workers |-> Idle]
    /\ client = NewPage
    /\ held = NotHeld

\* the process after `simulator = TradingDataSimulator()`, line 307; no
\* browser has loaded the page
Init == InitWith(SamplePositions)

\* every fetch of the log reported unavailable (returned None)
LogUnavailable(log) ==
    \A i \in DOMAIN log : ~log[i].threw /\ log[i].ltp = PyNone

\* one GET request handled from its arrival to the end of do_GET
Serve(path, env) ==
    \E r \in {do_GET(path, simulator, env)} :
        /\ simulator' = r.sim
        /\ response' = r.response
        /\ last_path' = path
        /\ before' = simulator
        /\ fetch_log' = r.log
        /\ raised' = r.raised
        /\ refreshes' = refreshes + r.updates
        /\ only_unavailable' = (only_unavailable /\ LogUnavailable(r.log))
        /\ UNCHANGED <<handlers, client, held>>

IdleEnv == [outs |-> NoOutcomes, rnd |-> NoDraws,
            rpos |-> [i \in DOMAIN simulator.positions |-> 0], now |-> now]

\* GET /
GetPage ==
    /\ requests < MaxRequests
    /\ \E path \in Paths :
        /\ Route(path) = "page"
        /\ Serve(path, IdleEnv)
    /\ requests' = requests + 1
    /\ UNCHANGED <<now, data_requests>>

\* GET /api/data; the inputs the refresh does not read are not drawn
GetApiData ==
    /\ requests < MaxRequests
    /\ \E path \in Paths :
        /\ Route(path) = "data"
        /\ \E outs \in IF TokenTruthy(simulator.upstox.access_token)
                       THEN OutcomeChoices ELSE {NoOutcomes},
              rnd \in IF TokenTruthy(simulator.upstox.access_token)
                      THEN {NoDraws} ELSE RandomChoices,
              rpos \in PositionDraws(simulator.positions) :
                Serve(path, [outs |-> outs, rnd |-> rnd, rpos |-> rpos,
                             now |-> now + 1])
    /\ now' = now + 1
    /\ requests' = requests + 1
    /\ data_requests' = data_requests + 1

\* GET of any other path
GetNotFound ==
    /\ requests < MaxRequests
    /\ \E path \in Paths :
        /\ Route(path) = "notfound"
        /\ Serve(path, IdleEnv)
    /\ requests' = requests + 1
    /\ UNCHANGED <<now, data_requests>>

\* a call of simulator.set_access_token
SetAccessToken ==
    \E token \in Tokens :
        /\ simulator' = set_access_token(simulator, token)
        /\ last_path' = ""
        /\ UNCHANGED <<now, response, before, fetch_log, raised, requests,
                       data_requests, refreshes, only_unavailable, handlers,
                       client, held>>

\* GET /api/data while the upstream cannot be reached: every request of the
\* refresh times out
GetApiDataOffline ==
    /\ requests < MaxRequests
    /\ \E path \in Paths :
        /\ Route(path) = "data"
        /\ \E rpos \in PositionDraws(simulator.positions) :
                Serve(path, [outs |-> NoOutcomes, rnd |-> NoDraws,
                             rpos |-> rpos, now |-> now + 1])
    /\ now' = now + 1
    /\ requests' = requests + 1
    /\ data_requests' = data_requests + 1

\* the server process: run_server serves GET requests one at a time
ServerNext == GetPage \/ GetApiData \/ GetNotFound

ServerSpec == Init /\ [][ServerNext]_vars

\* the producer with its whole interface
Next == GetPage \/ GetApiData \/ GetNotFound \/ SetAccessToken

Spec == Init /\ [][Next]_vars

\* the server process with the producer constructed over any of the books
BookInit == \E book \in Books : InitWith(book)

BookSpec == BookInit /\ [][ServerNext]_vars

\* the server process over the positions that are not on MCX, the upstream
\* out of reach
EquityInit == InitWith(EquityPositions)

EquityNext == GetPage \/ GetApiDataOffline \/ GetNotFound

EquitySpec == EquityInit /\ [][EquityNext]_vars

\* ClosePosition of a page whose Close button asks the server to drop the
\* position
ClosePositionRemoving ==
    /\ client.alert = ""
    /\ response.body.kind = "json"
    /\ \E i \in DOMAIN simulator.positions :
        /\ client' = [client EXCEPT !.alert = simulator.positions[i].symbol]
        /\ simulator' = [simulator EXCEPT !.positions =
                            SubSeq(@, 1, i - 1) \o SubSeq(@, i + 1, Len(@))]
    /\ requests' = requests + 1
    /\ UNCHANGED <<now, response, last_path, before, fetch_log, raised,
                   data_requests, refreshes, only_unavailable, handlers, held>>

\* closePosition(symbol), lines 872-874, called by the Close button of a row
\* of the positions table (line 853): an alert naming the symbol opens
ClosePosition ==
    /\ client.alert = ""
    /\ response.body.kind = "json"
    /\ \E i \in DOMAIN response.body.json.positions :
        client' = [client EXCEPT !.alert = response.body.json.positions[i].symbol]
    /\ UNCHANGED <<simulator, now, response, last_path, before, fetch_log,
                   raised, requests, data_requests, refreshes,
                   only_unavailable, handlers, held>>

\* the user dismisses the alert and closePosition returns
DismissAlert ==
    /\ client.alert # ""
    /\ client' = [client EXCEPT !.alert = ""]
    /\ UNCHANGED <<simulator, now, response, last_path, before, fetch_log,
                   raised, requests, data_requests, refreshes,
                   only_unavailable, handlers, held>>

\* a request of the page (the document, fetchData of lines 861-870, or an
\* address typed by the user); the script of the page does not run while
\* alert() has not returned
PageRequest == client.alert = "" /\ ServerNext

\* the server process and one page in a browser
ClientNext == PageRequest \/ ClosePosition \/ DismissAlert

ClientSpec == BookInit /\ [][ClientNext]_vars

\* a step of the script of the page: the server is not involved
PageStep(c) ==
    /\ client' = c
    /\ UNCHANGED <<simulator, now, response, last_path, before, fetch_log,
                   raised, requests, data_requests, refreshes,
                   only_unavailable, handlers, held>>

\* the browser runs the script of the document it received, lines 905-910:
\* two interval timers for the clock and the data age, then
\* startAutoRefresh()
LoadPage ==
    /\ ~client.loaded
    /\ response.body.kind = "html"
    /\ PageStep([startAutoRefresh([client EXCEPT !.loaded = TRUE,
                                                 !.next_id = 3])
                    EXCEPT !.last_call = "start"])

\* a call can be made on a loaded page whose script is not held by alert()
CanCall == client.loaded /\ client.alert = "" /\ client.calls < MaxCalls

\* startAutoRefresh() called on the page
CallStart ==
    /\ CanCall
    /\ PageStep([startAutoRefresh(client)
                    EXCEPT !.last_call = "start", !.calls = @ + 1])

\* stopAutoRefresh() called on the page
CallStop ==
    /\ CanCall
    /\ PageStep([stopAutoRefresh(client)
                    EXCEPT !.last_call = "stop", !.calls = @ + 1])

\* toggleAutoRefresh() called on the page, the checkbox as it is
CallToggle ==
    /\ CanCall
    /\ PageStep([toggleAutoRefresh(client)
                    EXCEPT !.last_call = IF client.checked
                                         THEN "toggle_checked"
                                         ELSE "toggle_unchecked",
                           !.calls = @ + 1])

\* the user clicks the Auto checkbox of line 713: its state flips and
\* onchange calls toggleAutoRefresh()
ClickAutoRefresh ==
    /\ CanCall
    /\ PageStep([toggleAutoRefresh([client EXCEPT !.checked = ~@])
                    EXCEPT !.last_call = IF client.checked
                                         THEN "toggle_unchecked"
                                         ELSE "toggle_checked",
                           !.calls = @ + 1])

\* a second passes: every active interval timer of fetchData fires once and
\* each firing is one call of fetchData
Tick ==
    /\ client.loaded
    /\ client.alert = ""
    /\ client.ticks < MaxTicks
    /\ PageStep([client EXCEPT !.ticks = @ + 1,
                               !.polls = @ + Cardinality(client.timers)])

\* the server process serving the document, and the timers of one page
TimerNext ==
    \/ GetPage \/ LoadPage \/ CallStart \/ CallStop \/ CallToggle
    \/ ClickAutoRefresh \/ Tick

TimerSpec == Init /\ [][TimerNext]_vars

\* a caller in the process calls simulator.get_data() and keeps the result
CallGetData ==
    /\ held' = [kind |-> "json", json |-> get_data(simulator),
                refs |-> SnapshotRefs(simulator), at |-> refreshes,
                edited |-> FALSE]
    /\ simulator' = SelfAfterGetData(simulator)
    /\ UNCHANGED <<now, response, last_path, before, fetch_log, raised,
                   requests, data_requests, refreshes, only_unavailable,
                   handlers, client>>

\* the nested objects of a snapshot a caller may assign to
Edits == {"nifty", "pnl", "mcx", "position"}

\* the snapshot after the assignment: a price, total or ltp set to 0
Edited(json, e) ==
    CASE e = "nifty" -> [json EXCEPT !.nifty.price = 0]
      [] e = "pnl" -> [json EXCEPT !.pnl.total = 0]
      [] e = "mcx" -> [json EXCEPT !.mcx["crudeoil"].price = 0]
      [] e = "position" -> [json EXCEPT !.positions[1].ltp = 0]

\* the producer after the assignment: an object of the snapshot that is an
\* object of the producer changes there too
EditThrough(sim, refs, e) ==
    IF e = "position" /\ refs.positions[1] = "shared"
    THEN [sim EXCEPT !.positions[1] = Put(@, "ltp", 0)]
    ELSE IF e = "mcx" /\ refs.mcx["crudeoil"] = "shared"
    THEN [sim EXCEPT !.mcx_prices["CRUDEOIL"].price = 0]
    ELSE sim

\* the caller changes a nested object of the snapshot it holds (one
\* assignment per snapshot)
EditSnapshot ==
    /\ held.kind = "json"
    /\ ~held.edited
    /\ \E e \in Edits :
        /\ held' = [held EXCEPT !.json = Edited(@, e), !.edited = TRUE]
        /\ simulator' = EditThrough(simulator, held.refs, e)
    /\ UNCHANGED <<now, response, last_path, before, fetch_log, raised,
                   requests, data_requests, refreshes, only_unavailable,
                   handlers, client>>

\* the server process with a caller of get_data inside it
ReaderNext == ServerNext \/ CallGetData \/ EditSnapshot

ReaderSpec == Init /\ [][ReaderNext]_vars

\* the draws of one _simulate_data in a falling market: every
\* random.uniform at its lowest value, or every one at 0
WalkChoices == {[i \in InstrumentSet |-> c] : c \in {-1000, 0}}

\* a call of simulator.update() by a caller other than do_GET, while the
\* upstream cannot be reached
Refresh ==
    /\ refreshes < MaxRefreshes
    /\ \E rnd \in IF TokenTruthy(simulator.upstox.access_token)
                   THEN {NoDraws} ELSE WalkChoices :
         \E u \in {update(simulator,
                          [outs |-> NoOutcomes, rnd |-> rnd,
                           rpos |-> [i \in DOMAIN simulator.positions |-> 0],
                           now |-> now + 1])} :
            /\ simulator' = u.sim
            /\ fetch_log' = u.log
            /\ raised' = u.raised
            /\ only_unavailable' = (only_unavailable /\ LogUnavailable(u.log))
    /\ before' = simulator
    /\ last_path' = ""
    /\ now' = now + 1
    /\ refreshes' = refreshes + 1
    /\ UNCHANGED <<response, requests, data_requests, handlers, client, held>>

\* the producer driven directly, for long runs of refreshes
WalkNext == SetAccessToken \/ Refresh

WalkSpec == Init /\ [][WalkNext]_vars

(***************************************************************************)
(* The server process statement by statement: a handler is at              *)
(*   idle       no request                                                 *)
(*   other      before line 919 or 931 (a path other than /api/data)       *)
(*   fetch      before line 166, inside simulator.update() of line 924     *)
(*   positions  before line 172                                            *)
(*   respond    before line 925                                            *)
(***************************************************************************)
\* CanAccept of a server that starts a handler per request without waiting
\* (socketserver.ThreadingMixIn)
CanAcceptThreaded(hs) == TRUE

\* socketserver.TCPServer.serve_forever, lines 938-960: the next request is
\* accepted when the handler of the previous one has returned
CanAccept(hs) == \A w \in Workers : hs[w].pc = "idle"

\* the request is accepted and do_GET picks its branch, lines 918, 923, 930
StepAccept(w) ==
    /\ requests < MaxRequests
    /\ CanAccept(handlers)
    /\ handlers[w].pc = "idle"
    /\ \A v \in Workers : v < w => handlers[v].pc # "idle"
    /\ \E path \in Paths :
        /\ handlers' = [handlers EXCEPT ![w] =
                [pc |-> IF Route(path) = "data" THEN "fetch" ELSE "other",
                 path |-> path, log |-> << >>]]
        /\ data_requests' = data_requests + (IF Route(path) = "data" THEN 1 ELSE 0)
    /\ requests' = requests + 1
    /\ UNCHANGED <<simulator, now, response, last_path, before, fetch_log,
                   raised, refreshes, only_unavailable, client, held>>

\* lines 919-922 or 931-932
StepOther(w) ==
    /\ handlers[w].pc = "other"
    /\ \E r \in {do_GET(handlers[w].path, simulator, IdleEnv)} :
        /\ response' = r.response
        /\ raised' = r.raised
        /\ fetch_log' = r.log
    /\ last_path' = handlers[w].path
    /\ handlers' = [handlers EXCEPT ![w] = Idle]
    /\ UNCHANGED <<simulator, now, before, requests, data_requests, refreshes,
                   only_unavailable, client, held>>

\* lines 166-169; an exception ends the handler with nothing sent
StepFetch(w) ==
    /\ handlers[w].pc = "fetch"
    /\ \E outs \in IF TokenTruthy(simulator.upstox.access_token)
                   THEN OutcomeChoices ELSE {NoOutcomes},
          rnd \in IF TokenTruthy(simulator.upstox.access_token)
                  THEN {NoDraws} ELSE RandomChoices :
         \E f \in {UpdateHead(simulator, [outs |-> outs, rnd |-> rnd])} :
            /\ simulator' = f.sim
            /\ only_unavailable' = (only_unavailable /\ LogUnavailable(f.log))
            /\ IF f.raised
               THEN /\ response' = NoResponse
                    /\ raised' = TRUE
                    /\ last_path' = handlers[w].path
                    /\ fetch_log' = f.log
                    /\ handlers' = [handlers EXCEPT ![w] = Idle]
               ELSE /\ handlers' = [handlers EXCEPT ![w].pc = "positions",
                                                    ![w].log = f.log]
                    /\ UNCHANGED <<response, raised, last_path, fetch_log>>
    /\ before' = simulator
    /\ refreshes' = refreshes + 1
    /\ UNCHANGED <<now, requests, data_requests, client, held>>

\* lines 172-173
StepPositions(w) ==
    /\ handlers[w].pc = "positions"
    /\ \E rpos \in PositionDraws(simulator.positions) :
         \E u \in {UpdateTail([sim |-> simulator, raised |-> FALSE,
                               log |-> handlers[w].log],
                              [rpos |-> rpos, now |-> now + 1])} :
            simulator' = u.sim
    /\ now' = now + 1
    /\ handlers' = [handlers EXCEPT ![w].pc = "respond"]
    /\ UNCHANGED <<response, last_path, before, fetch_log, raised, requests,
                   data_requests, refreshes, only_unavailable, client, held>>

\* lines 925-929
StepRespond(w) ==
    /\ handlers[w].pc = "respond"
    /\ \E r \in {SendSnapshot([sim |-> simulator, raised |-> FALSE,
                                log |-> handlers[w].log])} :
        /\ response' = r.response
        /\ raised' = r.raised
        /\ fetch_log' = r.log
    /\ last_path' = handlers[w].path
    /\ handlers' = [handlers EXCEPT ![w] = Idle]
    /\ UNCHANGED <<simulator, now, before, requests, data_requests, refreshes,
                   only_unavailable, client, held>>

StepNext ==
    \E w \in Workers :
        \/ StepAccept(w)
        \/ StepOther(w)
        \/ StepFetch(w)
        \/ StepPositions(w)
        \/ StepRespond(w)

StepSpec == BookInit /\ [][StepNext]_vars

(***************************************************************************)
(* Vocabulary of the properties.                                           *)
(***************************************************************************)
\* the last step was a GET /api/data
DataRequestDone == last_path = "/api/data"

\* ... and it was answered with a snapshot
SnapshotServed == DataRequestDone /\ ~raised /\ response.body.kind = "json"

\* the price the producer tracks for an instrument
TrackedPrice(sim, inst) ==
    IF inst = "NIFTY" THEN sim.nifty_price
    ELSE IF inst = "BANKNIFTY" THEN sim.banknifty_price
    ELSE sim.mcx_prices[inst].price

\* the price a snapshot shows for an instrument, in hundredths
SnapshotPrice(json, inst) ==
    IF inst = "NIFTY" THEN json.nifty.price
    ELSE IF inst = "BANKNIFTY" THEN json.banknifty.price
    ELSE json.mcx[Lower(inst)].price

\* the fetch of a log entry failed or reported unavailable: network error,
\* timeout, non-200 status, empty data
FetchUnavailable(e) ==
    e.out.kind \in {"timeout", "neterr", "nojson", "status", "badbody", "empty",
                    "nolast"}

\* the upstream answered the request with HTTP status 200
Http200(out) == out.kind \notin {"timeout", "neterr", "status"}

(***************************************************************************)
(* C1.  Every GET /api/data calls update exactly once before the response  *)
(* is built, and the snapshot of the response is the state that refresh    *)
(* produced: after N data requests exactly N refreshes have run, and the   *)
(* body served is get_data of the refreshed producer, stamped with the     *)
(* clock that refresh read.                                                *)
(***************************************************************************)
C1_OneRefreshPerDataRequest ==
    /\ refreshes = data_requests
    /\ SnapshotServed =>
         /\ response.body.json = get_data(simulator)
         /\ simulator.last_update = now
         /\ response.body.json.timestamp = Strftime(now)

C1_Witness ==
    /\ data_requests = 2
    /\ refreshes = 2
    /\ SnapshotServed
    /\ response.status = 200
    /\ simulator.nifty_price # before.nifty_price

(***************************************************************************)
(* C2.  After every refresh, for every position, pnl is (ltp - avg_price)  *)
(* * qty for LONG and (avg_price - ltp) * qty otherwise, pnl_pct is        *)
(* pnl / (avg_price * qty) * 100, or 0 when avg_price <= 0, and the        *)
(* snapshot shows both rounded to 2 decimals; a long position with         *)
(* avg_price 100, qty 10, ltp 110 and a short one with ltp 90 show pnl     *)
(* 100.00 and pnl_pct 10.00.                                               *)
(***************************************************************************)
C2_PositionPnl ==
    SnapshotServed =>
        \A i \in DOMAIN simulator.positions :
            LET p == simulator.positions[i]
                e == response.body.json.positions[i]
                expected == IF p.type = "LONG"
                            THEN (p.ltp - p.avg_price) * p.qty
                            ELSE (p.avg_price - p.ltp) * p.qty
            IN  /\ p.pnl = expected
                /\ p.pnl_pct = IF p.avg_price <= 0 THEN Frac(0, 1)
                               ELSE Frac(expected * 100, p.avg_price * p.qty)
                /\ e.pnl = RoundHalfEven(expected * 100, 100)
                /\ e.pnl_pct = IF p.avg_price <= 0 THEN 0
                               ELSE RoundHalfEven(expected * 100 * 100,
                                                  p.avg_price * p.qty)
                /\ (/\ p.avg_price = 10000
                    /\ p.qty = 10
                    /\ \/ p.type = "LONG" /\ p.ltp = 11000
                       \/ p.type = "SHORT" /\ p.ltp = 9000)
                   => e.pnl = 10000 /\ e.pnl_pct = 1000

C2_Witness ==
    /\ SnapshotServed
    /\ \E i \in DOMAIN simulator.positions :
         /\ simulator.positions[i].type = "LONG"
         /\ simulator.positions[i].avg_price = 10000
         /\ simulator.positions[i].qty = 10
         /\ simulator.positions[i].ltp = 11000
         /\ response.body.json.positions[i].pnl = 10000
         /\ response.body.json.positions[i].pnl_pct = 1000
    /\ \E i \in DOMAIN simulator.positions :
         /\ simulator.positions[i].type = "SHORT"
         /\ simulator.positions[i].pnl < 0
    /\ \E i \in DOMAIN simulator.positions :
         /\ simulator.positions[i].avg_price = 0
         /\ simulator.positions[i].pnl # 0
         /\ response.body.json.positions[i].pnl_pct = 0

(***************************************************************************)
(* C3.  After every refresh each MCX position has the tracked price of its *)
(* underlying commodity as ltp, the underlying being the commodity named   *)
(* by the symbol (CRUDEOIL25FEBFUT -> CRUDEOIL, GOLD25FEBFUT -> GOLD,      *)
(* SILVER25MARFUT -> SILVER).                                              *)
(***************************************************************************)
NamedCommodity(symbol) ==
    CASE symbol = "CRUDEOIL25FEBFUT" -> "CRUDEOIL"
      [] symbol = "GOLD25FEBFUT" -> "GOLD"
      [] symbol = "SILVER25MARFUT" -> "SILVER"

C3_McxPositionTracksCommodity ==
    (DataRequestDone /\ ~raised) =>
        \A i \in DOMAIN simulator.positions :
            simulator.positions[i].exchange = "MCX" =>
                simulator.positions[i].ltp =
                    simulator.mcx_prices[
                        NamedCommodity(simulator.positions[i].symbol)].price

(***************************************************************************)
(* C4.  If the upstream returns the price V for a tracked instrument X     *)
(* during a refresh, the snapshot of that refresh shows V for X and        *)
(* data_source "LIVE".                                                     *)
(***************************************************************************)
C4_QuoteShownLive ==
    SnapshotServed =>
        \A k \in DOMAIN fetch_log :
            fetch_log[k].out.kind = "quote" =>
                /\ SnapshotPrice(response.body.json, fetch_log[k].inst)
                     = fetch_log[k].out.val
                /\ response.body.json.data_source = "LIVE"

(***************************************************************************)
(* C5.  In an upstream-backed refresh, the tracked price of every          *)
(* instrument whose fetch failed or reported unavailable is the price it   *)
(* had before the refresh; only instruments whose fetch returned a price   *)
(* are overwritten.                                                        *)
(***************************************************************************)
C5_FailedFetchKeepsPrice ==
    (DataRequestDone /\ TokenTruthy(before.upstox.access_token)) =>
        /\ \A k \in DOMAIN fetch_log :
             FetchUnavailable(fetch_log[k]) =>
                TrackedPrice(simulator, fetch_log[k].inst)
                    = TrackedPrice(before, fetch_log[k].inst)
        /\ \A inst \in InstrumentSet :
             TrackedPrice(simulator, inst) # TrackedPrice(before, inst) =>
                \E k \in DOMAIN fetch_log :
                    /\ fetch_log[k].inst = inst
                    /\ fetch_log[k].out.kind = "quote"
                    /\ fetch_log[k].out.val = TrackedPrice(simulator, inst)

C5_Witness ==
    /\ DataRequestDone
    /\ ~raised
    /\ \E k \in DOMAIN fetch_log :
         /\ fetch_log[k].out.kind = "empty"
         /\ TrackedPrice(before, fetch_log[k].inst) # BasePrice(fetch_log[k].inst)
         /\ TrackedPrice(simulator, fetch_log[k].inst)
              = TrackedPrice(before, fetch_log[k].inst)
    /\ \E k \in DOMAIN fetch_log :
         /\ fetch_log[k].out.kind = "quote"
         /\ TrackedPrice(simulator, fetch_log[k].inst)
              # TrackedPrice(before, fetch_log[k].inst)

(***************************************************************************)
(* C6.  update never raises to its caller, whatever the upstream does:     *)
(* network failure, timeout, non-success status, malformed payload.        *)
(***************************************************************************)
C6_RefreshNeverRaises == ~raised

(***************************************************************************)
(* C7.  If every upstream fetch of every refresh since the start of the    *)
(* process reported unavailable, every snapshot served has data_source     *)
(* "SIMULATED" and no refresh raised.                                      *)
(***************************************************************************)
C7_UnavailableIsSimulated ==
    only_unavailable =>
        /\ ~raised
        /\ ~simulator.use_real_data
        /\ response.body.kind = "json" =>
             response.body.json.data_source = "SIMULATED"

C7_Witness ==
    /\ only_unavailable
    /\ data_requests = 2
    /\ SnapshotServed
    /\ Len(fetch_log) = Len(Instruments)
    /\ response.body.json.data_source = "SIMULATED"

(***************************************************************************)
(* C8.  Whenever a refresh obtains no price from the upstream, the         *)
(* snapshot served for that request has data_source "SIMULATED", after any *)
(* sequence of earlier refreshes and set_access_token calls.               *)
(***************************************************************************)
C8_NoPriceIsSimulated ==
    (SnapshotServed /\ \A k \in DOMAIN fetch_log : ~fetch_log[k].stored) =>
        response.body.json.data_source = "SIMULATED"

(***************************************************************************)
(* C9.  Every GET /api/data is answered with status 200, Content-Type      *)
(* application/json, Access-Control-Allow-Origin * and a JSON body with    *)
(* timestamp, data_source, pnl and positions, whatever the upstream did    *)
(* during the refresh.                                                     *)
(***************************************************************************)
C9_DataRequestAnswered ==
    DataRequestDone =>
        /\ response.status = 200
        /\ <<"Content-type", "application/json">> \in response.headers
        /\ <<"Access-Control-Allow-Origin", "*">> \in response.headers
        /\ response.body.kind = "json"
        /\ {"timestamp", "data_source", "pnl", "positions"}
              \subseteq DOMAIN response.body.json

(***************************************************************************)
(* C10.  A GET for any path other than exactly "/" and exactly "/api/data" *)
(* (those paths with a query string included) is answered with status 404  *)
(* and an empty body.                                                      *)
(***************************************************************************)
C10_OtherPathsNotFound ==
    last_path \notin {"", "/", "/api/data"} =>
        /\ response.status = 404
        /\ response.body.kind = "empty"
        /\ response.headers = {}
        /\ ~raised

C10_Witness ==
    /\ last_path = "/api/data?x=1"
    /\ response.status = 404
    /\ response.body.kind = "empty"
    /\ data_requests = 1

(***************************************************************************)
(* C11.  In synthetic mode (no credential), after any number of            *)
(* consecutive refreshes every tracked price, NIFTY, BANKNIFTY and each    *)
(* MCX commodity, is at least 80% of its base price.                       *)
(***************************************************************************)
C11_SyntheticAtLeast80 ==
    (~TokenTruthy(simulator.upstox.access_token) /\ refreshes > 0) =>
        \A inst \in InstrumentSet :
            10 * TrackedPrice(simulator, inst) >= 8 * BasePrice(inst)

(***************************************************************************)
(* C12.  After every refresh, every instrument of the snapshot (nifty,     *)
(* banknifty, each mcx entry) has change = price - base and change_pct =   *)
(* change / base * 100 (0 when base = 0), both rounded to 2 decimals, base *)
(* being the fixed reference price of the instrument.                      *)
(***************************************************************************)
C12_ChangeFromBase ==
    SnapshotServed =>
        \A inst \in InstrumentSet :
            LET e     == IF inst = "NIFTY" THEN response.body.json.nifty
                         ELSE IF inst = "BANKNIFTY" THEN response.body.json.banknifty
                         ELSE response.body.json.mcx[Lower(inst)]
                price == TrackedPrice(simulator, inst)
                base  == BasePrice(inst)
            IN  /\ e.price = price
                /\ e.change = price - base
                /\ e.change_pct = IF base = 0 THEN 0
                                  ELSE RoundHalfEven((price - base) * 100 * 100, base)
                /\ inst \notin {"NIFTY", "BANKNIFTY"} =>
                      simulator.mcx_prices[inst].base = base
                /\ simulator.nifty_base = nifty_base
                /\ simulator.banknifty_base = banknifty_base

C12_Witness ==
    /\ SnapshotServed
    /\ response.body.json.nifty.change = 10000
    /\ response.body.json.nifty.change_pct = 40
    /\ response.body.json.banknifty.change = -10000
    /\ response.body.json.mcx["crudeoil"].change = -10000
    /\ response.body.json.mcx["crudeoil"].change_pct = -174

(***************************************************************************)
(* C13.  No response contains a partially refreshed snapshot: requests are *)
(* handled one at a time, so no step of another request runs between the   *)
(* start of a request's refresh and the serialization of its snapshot; the *)
(* snapshot shows the prices its own refresh fetched, and its positions    *)
(* have ltp and pnl computed from the prices of that snapshot.             *)
(***************************************************************************)
C13_NoPartialSnapshot ==
    /\ Cardinality({w \in Workers : handlers[w].pc # "idle"}) <= 1
    /\ SnapshotServed =>
        /\ \A k \in DOMAIN fetch_log :
              fetch_log[k].stored =>
                SnapshotPrice(response.body.json, fetch_log[k].inst)
                    = fetch_log[k].out.val
        /\ \A i \in DOMAIN response.body.json.positions :
              LET e == response.body.json.positions[i]
              IN  /\ \A c \in DOMAIN InitialMcxPrices :
                        (e.exchange = "MCX" /\ Chars(c) = Underlying(e.symbol))
                            => e.ltp = response.body.json.mcx[Lower(c)].price
                  /\ e.pnl = IF e.type = "LONG"
                             THEN (e.ltp - e.avg_price) * e.qty
                             ELSE (e.avg_price - e.ltp) * e.qty

C13_Witness ==
    /\ SnapshotServed
    /\ data_requests = 2
    /\ refreshes = 2
    /\ \A w \in Workers : handlers[w].pc = "idle"
    /\ \E k \in DOMAIN fetch_log :
         fetch_log[k].inst = "NATURALGAS" /\ fetch_log[k].stored
    /\ before.mcx_prices["NATURALGAS"].price = 11000
    /\ response.body.json.mcx["naturalgas"].price = 9000
    /\ \E i \in DOMAIN response.body.json.positions :
         /\ response.body.json.positions[i].symbol = "NATURALGAS26FUT"
         /\ response.body.json.positions[i].ltp = 9000

(***************************************************************************)
(* C14.  After any sequence of requests, refreshes and client actions      *)
(* (Close included) the list of positions holds the positions of process   *)
(* start in the same order, each with its symbol, type, qty, avg_price,    *)
(* source and exchange unchanged; the Close action sends no request to the *)
(* server.                                                                 *)
(***************************************************************************)
SamePosition(p, b) ==
    /\ \A f \in {"symbol", "type", "qty", "avg_price", "source"} : p[f] = b[f]
    /\ ("exchange" \in DOMAIN p) = ("exchange" \in DOMAIN b)
    /\ Get(p, "exchange", "NSE") = Get(b, "exchange", "NSE")

C14_PositionsKept ==
    /\ [](\E book \in Books :
            /\ Len(simulator.positions) = Len(book)
            /\ \A i \in DOMAIN book : SamePosition(simulator.positions[i], book[i]))
    /\ [][client' # client =>
            /\ requests' = requests
            /\ simulator' = simulator
            /\ response' = response]_vars

C14_Witness ==
    /\ client.alert = "NATURALGAS26FUT"
    /\ data_requests = 2
    /\ SnapshotServed
    /\ \E i \in DOMAIN simulator.positions :
         /\ simulator.positions[i].symbol = "RELIANCE"
         /\ simulator.positions[i].ltp # simulator.positions[i].avg_price
    /\ \E i \in DOMAIN simulator.positions :
         /\ simulator.positions[i].symbol = "NATURALGAS26FUT"
         /\ simulator.positions[i].ltp = 9000

(***************************************************************************)
(* C15.  When fetches fail in a refresh made with a credential, the error  *)
(* is swallowed and the producer falls back to synthetic movement: every   *)
(* price whose fetch failed is moved by the random walk in that refresh.   *)
(***************************************************************************)
C15_FailedFetchFallsBack ==
    (DataRequestDone /\ TokenTruthy(before.upstox.access_token)) =>
        \A k \in DOMAIN fetch_log :
            FetchUnavailable(fetch_log[k]) =>
                /\ ~raised
                /\ TrackedPrice(simulator, fetch_log[k].inst)
                     # TrackedPrice(before, fetch_log[k].inst)

(***************************************************************************)
(* C16.  Within one refresh at most one upstream fetch is issued per       *)
(* tracked instrument, in the order NIFTY, BANKNIFTY, commodities; a fetch *)
(* that fails or times out is not retried, and the refresh goes on to the  *)
(* next instrument.                                                        *)
(***************************************************************************)
C16_OneFetchPerInstrument ==
    /\ Len(fetch_log) <= Len(Instruments)
    /\ \A k \in DOMAIN fetch_log :
         /\ fetch_log[k].inst = Instruments[k]
         /\ (FetchUnavailable(fetch_log[k]) /\ k < Len(Instruments)) =>
               /\ Len(fetch_log) > k
               /\ fetch_log[k + 1].inst = Instruments[k + 1]

C16_Witness ==
    /\ DataRequestDone
    /\ ~raised
    /\ Len(fetch_log) = Len(Instruments)
    /\ fetch_log[1].out.kind = "timeout"
    /\ fetch_log[3].out.kind = "timeout"
    /\ fetch_log[Len(Instruments)].stored

C18_SyntheticMoveBounded ==
    (DataRequestDone /\ ~TokenTruthy(before.upstox.access_token)) =>
        \A c \in DOMAIN InitialMcxPrices :
            1000 * Abs(simulator.mcx_prices[c].price - before.mcx_prices[c].price)
                <= 2 * InitialMcxPrices[c].base

(***************************************************************************)
(* C19.  A request for any path other than /api/data (the page "/" and     *)
(* every unknown path) leaves the whole producer unchanged: prices,        *)
(* positions, use_real_data, last_update and every other field are the     *)
(* same before and after it; of all requests only GET /api/data changes    *)
(* the producer.                                                           *)
(***************************************************************************)
C19_OtherRequestsKeepState ==
    /\ [](last_path \notin {"", "/api/data"} => simulator = before)
    /\ [][(requests' # requests /\ last_path' # "/api/data") =>
            /\ simulator' = simulator
            /\ refreshes' = refreshes]_vars

C19_Witness ==
    /\ requests = 2
    /\ data_requests = 1
    /\ last_path \in {"/", "/unknown"}
    /\ simulator = before
    /\ simulator.last_update = 1
    /\ simulator.nifty_price # nifty_base
    /\ simulator.use_real_data

(***************************************************************************)
(* C20.  In every snapshot pnl.unrealized is the sum of the pnl of all     *)
(* positions, pnl.total is pnl.realized + pnl.unrealized, pnl.realized is  *)
(* the value of process start (2500.00) and stats.open_positions is the    *)
(* number of entries of positions.                                         *)
(***************************************************************************)
RECURSIVE SnapshotPnlSum(_)
SnapshotPnlSum(entries) ==
    IF entries = << >> THEN 0
    ELSE Head(entries).pnl + SnapshotPnlSum(Tail(entries))

C20_PnlTotals ==
    SnapshotServed =>
        /\ response.body.json.pnl.unrealized
             = SnapshotPnlSum(response.body.json.positions)
        /\ response.body.json.pnl.total
             = response.body.json.pnl.realized + response.body.json.pnl.unrealized
        /\ response.body.json.pnl.realized = InitialRealizedPnl
        /\ simulator.realized_pnl = InitialRealizedPnl
        /\ response.body.json.stats.open_positions
             = Len(response.body.json.positions)

C20_Witness ==
    /\ SnapshotServed
    /\ data_requests = 2
    /\ response.body.json.stats.open_positions = 4
    /\ response.body.json.positions[1].pnl = 10000
    /\ response.body.json.positions[2].pnl = -10000
    /\ response.body.json.positions[4].pnl = -170000
    /\ response.body.json.pnl.unrealized
         = response.body.json.positions[3].pnl - 170000
    /\ response.body.json.positions[3].pnl # 0
    /\ response.body.json.pnl.total = 250000 + response.body.json.pnl.unrealized

(***************************************************************************)
(* C21.  On the page, after any sequence of startAutoRefresh,              *)
(* stopAutoRefresh and toggleAutoRefresh calls at most one interval timer  *)
(* of fetchData is active; one is active exactly when the last of these    *)
(* calls was a start or a toggle with the checkbox checked, none is active *)
(* after a stop, and so fetchData is polled at most once a second.         *)
(***************************************************************************)
C21_OnePollingTimer ==
    /\ Cardinality(client.timers) <= 1
    /\ client.timers \subseteq {client.autoRefreshInterval}
    /\ (client.timers # {}) <=>
            client.last_call \in {"start", "toggle_checked"}
    /\ client.last_call \in {"stop", "toggle_unchecked", "none"} =>
            client.timers = {} /\ client.autoRefreshInterval = 0
    /\ client.polls <= client.ticks

C21_Witness ==
    /\ client.loaded
    /\ client.calls = 3
    /\ client.last_call = "toggle_checked"
    /\ client.timers = {5}
    /\ client.autoRefreshInterval = 5
    /\ client.ticks = 2
    /\ client.polls = 1

(***************************************************************************)
(* C22.  broker_connected of the snapshot is the connection flag of the    *)
(* fetcher, which is false until an upstream request has returned HTTP     *)
(* 200, true from the first such response on, whatever its data, and never *)
(* false again.                                                            *)
(***************************************************************************)
C22_BrokerConnected ==
    /\ [](/\ refreshes = 0 => ~simulator.upstox.is_connected
          /\ SnapshotServed =>
                response.body.json.broker_connected
                    = simulator.upstox.is_connected)
    /\ [][simulator'.upstox.is_connected
            = (\/ simulator.upstox.is_connected
               \/ \E k \in DOMAIN fetch_log' : Http200(fetch_log'[k].out))]_vars

(***************************************************************************)
(* C23.  For every position whose exchange is not MCX, after each refresh  *)
(* that updated the positions its ltp is at least 0.05 and, when above     *)
(* that floor, within 2% (to the paisa) of its ltp before the refresh; it  *)
(* is at the floor only when 2% below the previous ltp is no more than the *)
(* floor; before the first refresh the previous ltp is avg_price.          *)
(***************************************************************************)
C23_EquityLtpBounded ==
    SnapshotServed =>
        \A i \in DOMAIN simulator.positions :
            Get(simulator.positions[i], "exchange", "NSE") # "MCX" =>
                /\ simulator.positions[i].ltp >= 5
                /\ simulator.positions[i].ltp > 5 =>
                      Abs(simulator.positions[i].ltp
                            - Get(before.positions[i], "ltp",
                                  before.positions[i].avg_price)) * 100
                        <= 2 * Get(before.positions[i], "ltp",
                                   before.positions[i].avg_price) + 50
                /\ simulator.positions[i].ltp = 5 =>
                      98 * Get(before.positions[i], "ltp",
                               before.positions[i].avg_price) <= 550

C23_Witness ==
    /\ SnapshotServed
    /\ data_requests = 2
    /\ "exchange" \notin DOMAIN simulator.positions[1]
    /\ before.positions[1].ltp = 294
    /\ simulator.positions[1].ltp = 288
    /\ before.positions[2].ltp = 51000
    /\ simulator.positions[2].ltp = 52020
    /\ simulator.positions[3].avg_price = 4
    /\ simulator.positions[3].ltp = 5
    /\ response.body.json.positions[1].ltp = 288

(***************************************************************************)
(* C24.  A snapshot that get_data returned before any refresh shows every  *)
(* position with ltp = avg_price and change, change_pct, pnl and pnl_pct   *)
(* 0, every instrument at its base price with change 0, and data_source    *)
(* "SIMULATED".                                                            *)
(***************************************************************************)
C24_SnapshotBeforeRefresh ==
    (held.kind = "json" /\ held.at = 0 /\ ~held.edited) =>
        /\ Len(held.json.positions) = Len(SamplePositions)
        /\ \A i \in DOMAIN held.json.positions :
              /\ held.json.positions[i].avg_price = SamplePositions[i].avg_price
              /\ held.json.positions[i].ltp = held.json.positions[i].avg_price
              /\ held.json.positions[i].change = 0
              /\ held.json.positions[i].change_pct = 0
              /\ held.json.positions[i].pnl = 0
              /\ held.json.positions[i].pnl_pct = 0
        /\ held.json.nifty.price = nifty_base
        /\ held.json.nifty.change = 0
        /\ held.json.banknifty.price = banknifty_base
        /\ held.json.banknifty.change = 0
        /\ \A c \in DOMAIN InitialMcxPrices :
              /\ held.json.mcx[Lower(c)].price = InitialMcxPrices[c].base
              /\ held.json.mcx[Lower(c)].change = 0
        /\ held.json.data_source = "SIMULATED"

C24_Witness ==
    /\ held.kind = "json"
    /\ held.at = 0
    /\ ~held.edited
    /\ refreshes = 2
    /\ held.json.positions[1].ltp = 640000
    /\ held.json.positions[1].pnl = 0
    /\ held.json.mcx["crudeoil"].price = 575500
    /\ simulator.mcx_prices["CRUDEOIL"].price = 585500
    /\ held.json.nifty.price = nifty_base
    /\ simulator.nifty_price = nifty_base + 10000
    /\ held.json.data_source = "SIMULATED"
    /\ simulator.use_real_data

====
